---------------------------- MODULE Spec2Model ----------------------------
(***************************************************************************)
(* Model of simulador_consumo_pc.py: the validated console readers, the    *)
(* consumption calculator, the session loop that fills                     *)
(* computadores_registrados, and the three reporters.                      *)
(*                                                                         *)
(* Text is a sequence of one-character strings, so that len(), int() and   *)
(* str.lower() are computed on the characters.  A float is the exact       *)
(* rational <<numerator, denominator>> it approximates: over the validated *)
(* ranges the float products are strictly monotone in the exact ones, so   *)
(* min()/max() order and ties are the same.  `out` holds the values each   *)
(* print() of the last step interpolates; the rendering of the f-strings   *)
(* (padding, :.2f) is not modelled.  Every input() returns a line.         *)
(***************************************************************************)
EXTENDS Integers, Sequences, FiniteSets, TLC

VARIABLES
    pc,                        \* where the program is blocked
    computadores_registrados,  \* line 151
    nome_computador,           \* line 157
    potencia,                  \* line 164
    horas_por_dia,             \* line 167
    dias_por_mes,              \* line 170
    continuar,                 \* line 192
    line,                      \* the text the last input() returned
    out,                       \* what the last step wrote to the console
    ran,                       \* history: the reporters called so far, in order
    acks,                      \* history: "Pressione Enter" pauses answered
    sims,                      \* history: accepted 's' answers
    erro,                      \* history: the except branch of line 200 ran
    min_val, max_val,          \* get_int_input's arguments (function harness)
    value,                     \* get_int_input's return value (function harness)
    entradas,                  \* history: lines supplied to the harnessed call
    avisos                     \* history: messages printed by the harnessed call

mainVars == <<pc, computadores_registrados, nome_computador, potencia,
              horas_por_dia, dias_por_mes, continuar, line, out, ran, acks,
              sims, erro>>
callVars == <<min_val, max_val, value, entradas, avisos>>
vars == <<mainVars, callVars>>

---------------------------------------------------------------------------
(* Bounds of the model *)

\* devices one session may add before 's' is no longer offered
MaxDevices == 2
\* lines supplied to one harnessed get_int_input call
MaxEntradas == 3
\* records in a list handed to the harnessed exibir_comparacao_tabela
MaxTabela == 3

---------------------------------------------------------------------------
(* Text *)

Rep(c, n) == [i \in 1..n |-> c]

DigitVal(c) ==
    CASE c = "0" -> 0 [] c = "1" -> 1 [] c = "2" -> 2 [] c = "3" -> 3
      [] c = "4" -> 4 [] c = "5" -> 5 [] c = "6" -> 6 [] c = "7" -> 7
      [] c = "8" -> 8 [] c = "9" -> 9 [] OTHER -> -1

IsDigit(c) == DigitVal(c) >= 0

IsSpace(c) == c \in {" ", "\t"}

RECURSIVE Strip(_)
Strip(s) ==
    IF s = <<>> THEN s
    ELSE IF IsSpace(Head(s)) THEN Strip(Tail(s))
    ELSE IF IsSpace(s[Len(s)]) THEN Strip(SubSeq(s, 1, Len(s) - 1))
    ELSE s

\* the digits of an integer literal: at least one digit, single underscores
\* only between digits
RECURSIVE ScanDigits(_, _, _)
ScanDigits(s, acc, prevDigit) ==
    IF s = <<>> THEN [ok |-> prevDigit, val |-> acc]
    ELSE IF IsDigit(Head(s))
         THEN ScanDigits(Tail(s), acc * 10 + DigitVal(Head(s)), TRUE)
    ELSE IF Head(s) = "_" /\ prevDigit
         THEN ScanDigits(Tail(s), acc, FALSE)
    ELSE [ok |-> FALSE, val |-> 0]

\* int(text): ok is FALSE where Python raises ValueError
PyInt(text) ==
    LET s    == Strip(text)
        neg  == s # <<>> /\ Head(s) = "-"
        sgn  == s # <<>> /\ Head(s) \in {"+", "-"}
        body == IF sgn THEN Tail(s) ELSE s
        d    == ScanDigits(body, 0, FALSE)
    IN  IF d.ok THEN [ok |-> TRUE, val |-> IF neg THEN 0 - d.val ELSE d.val]
        ELSE [ok |-> FALSE, val |-> 0]

\* the lines a user types at the power, the hours and the days prompt
PotenciaLines ==
    { <<"x">>, <<"0">>, <<"1">>, <<"1", "_", "0", "0", "0">>,
      <<"1", "0", "0", "1">> }

HorasLines ==
    { <<>>, <<"0">>, <<"+", "1">>, <<" ", "2", "4", " ">>, <<"2", "5">> }

DiasLines ==
    { <<"2", ".", "5">>, <<"-", "1">>, <<"_", "3", "0">>, <<"3", "0">>,
      <<"3", "1">> }

\* the lines typed when get_int_input is called on its own
IntLinesCall == PotenciaLines \cup HorasLines \cup DiasLines

\* PyInt over the lines typed, computed once
PyIntTab == [text \in IntLinesCall |-> PyInt(text)]

LowerChar(c) == CASE c = "S" -> "s" [] c = "N" -> "n" [] OTHER -> c

\* str.lower()
Lower(s) == [i \in 1..Len(s) |-> LowerChar(s[i])]

---------------------------------------------------------------------------
(* Console output: each print() is a message with the values it shows *)

Msg(txt, args) == [txt |-> txt, args |-> args]

MsgOps(lo, hi) == Msg("Ops! O valor precisa estar entre", <<lo, hi>>)
MsgEntradaInvalida == Msg("Entrada invalida. Por favor, digite apenas numeros inteiros.", <<>>)
MsgPoxa == Msg("Poxa! O nome do computador deve ter entre 3 e 20 caracteres.", <<>>)
MsgRespostaInvalida == Msg("Resposta invalida. Por favor, digite 's' para sim ou 'n' para nao.", <<>>)
MsgAdicionando(n) == Msg("--- Adicionando Computador #", <<n>>)
MsgErroInesperado == Msg("Ocorreu um erro inesperado ao calcular", <<>>)
MsgNenhumConfigurado == Msg("Nenhum computador foi configurado. Encerrando o programa.", <<>>)
MsgNenhumAdicionado == Msg("Nenhum computador foi adicionado ainda.", <<>>)
MsgNenhumParaComparar == Msg("Nenhum computador para comparar.", <<>>)
MsgSemDadosGrafico == Msg("Nao ha dados de computadores para gerar o grafico.", <<>>)
MsgLimpaTela == Msg("<clear>", <<>>)
MsgDetalhes == Msg("--- Detalhes Individuais dos Computadores ---", <<>>)
MsgComparativo == Msg("--- Comparativo de Consumo de Energia (Tabela) ---", <<>>)

Saida(msgs, rows, comparacao, barras) ==
    [msgs |-> msgs, rows |-> rows, comparacao |-> comparacao, barras |-> barras]

Texto(msgs) == Saida(msgs, <<>>, <<>>, <<>>)

---------------------------------------------------------------------------
(* Validation and calculation *)

valida_nome_computador(nome) == 3 <= Len(nome) /\ Len(nome) <= 20

\* get_int_input with the lower bound excluded (min_val < value)
get_int_input_strict(text, lo, hi) ==
    LET p == PyIntTab[text]
    IN  IF ~p.ok
        THEN [ret |-> FALSE, value |-> 0, msgs |-> <<MsgEntradaInvalida>>]
        ELSE IF lo < p.val /\ p.val <= hi
        THEN [ret |-> TRUE, value |-> p.val, msgs |-> <<>>]
        ELSE [ret |-> FALSE, value |-> 0, msgs |-> <<MsgOps(lo, hi)>>]

\* get_int_input without the else branch of line 26: an integer out of
\* range is asked again with no message
get_int_input_silent(text, lo, hi) ==
    LET p == PyIntTab[text]
    IN  IF ~p.ok
        THEN [ret |-> FALSE, value |-> 0, msgs |-> <<MsgEntradaInvalida>>]
        ELSE IF lo <= p.val /\ p.val <= hi
        THEN [ret |-> TRUE, value |-> p.val, msgs |-> <<>>]
        ELSE [ret |-> FALSE, value |-> 0, msgs |-> <<>>]

\* one pass of get_int_input's loop over the line input() returned
get_int_input(text, lo, hi) ==
    LET p == PyIntTab[text]
    IN  IF ~p.ok
        THEN [ret |-> FALSE, value |-> 0, msgs |-> <<MsgEntradaInvalida>>]
        ELSE IF lo <= p.val /\ p.val <= hi
        THEN [ret |-> TRUE, value |-> p.val, msgs |-> <<>>]
        ELSE [ret |-> FALSE, value |-> 0, msgs |-> <<MsgOps(lo, hi)>>]

\* R$ 0.80 per kWh
PRECO_KWH == <<80, 100>>

\* denominators are positive; equal denominators are compared without the
\* cross product, which keeps the numbers small
RatMul(a, b) == <<a[1] * b[1], a[2] * b[2]>>
RatLess(a, b) ==
    IF a[2] = b[2] THEN a[1] < b[1] ELSE a[1] * b[2] < b[1] * a[2]
RatEq(a, b) ==
    IF a[2] = b[2] THEN a[1] = b[1] ELSE a[1] * b[2] = b[1] * a[2]

\* calcular_consumo_mensal with the days left out of the product
calcular_consumo_mensal_semdias(p, h, d, preco_kwh) ==
    LET consumo_mensal_kwh == <<p * h, 1000>>
    IN  [consumo_kwh |-> consumo_mensal_kwh,
         custo |-> RatMul(consumo_mensal_kwh, preco_kwh)]

calcular_consumo_mensal(p, h, d, preco_kwh) ==
    LET consumo_mensal_kwh == <<p * h * d, 1000>>
    IN  [consumo_kwh |-> consumo_mensal_kwh,
         custo |-> RatMul(consumo_mensal_kwh, preco_kwh)]

info_computador(nome, p, h, d) ==
    LET c == calcular_consumo_mensal(p, h, d, PRECO_KWH)
    IN  [nome |-> nome, potencia |-> p, horas_por_dia |-> h,
         dias_por_mes |-> d, consumo_kwh |-> c.consumo_kwh, custo |-> c.custo]

---------------------------------------------------------------------------
(* Reporters *)

Row(comp) ==
    [nome |-> comp.nome, potencia |-> comp.potencia,
     consumo_kwh |-> comp.consumo_kwh, custo |-> comp.custo]

Par(comp) == [nome |-> comp.nome, custo |-> comp.custo]

Rows(computadores) == [i \in 1..Len(computadores) |-> Row(computadores[i])]

\* a scan for the minimum that also replaces the candidate by an equal key,
\* and so keeps the last minimal record
RECURSIVE ScanMin_ultimo(_, _, _)
ScanMin_ultimo(c, i, best) ==
    IF i > Len(c) THEN best
    ELSE ScanMin_ultimo(c, i + 1,
                        IF RatLess(c[best].custo, c[i].custo) THEN best ELSE i)

\* min(computadores, key=custo): a left-to-right scan that replaces the
\* candidate only by a strictly smaller key; the result is a position
RECURSIVE ScanMin(_, _, _)
ScanMin(c, i, best) ==
    IF i > Len(c) THEN best
    ELSE ScanMin(c, i + 1, IF RatLess(c[i].custo, c[best].custo) THEN i ELSE best)

\* max(computadores, key=custo): replaces the candidate only by a strictly
\* larger key
RECURSIVE ScanMax(_, _, _)
ScanMax(c, i, best) ==
    IF i > Len(c) THEN best
    ELSE ScanMax(c, i + 1, IF RatLess(c[best].custo, c[i].custo) THEN i ELSE best)

\* exibir_resultados_individuais without the input() of line 95
exibir_resultados_individuais_sempausa(computadores) ==
    IF computadores = <<>>
    THEN [out |-> Texto(<<MsgLimpaTela, MsgDetalhes, MsgNenhumAdicionado>>),
          pause |-> FALSE]
    ELSE [out |-> Saida(<<MsgLimpaTela, MsgDetalhes>>, Rows(computadores), <<>>, <<>>),
          pause |-> FALSE]

\* pause: the function ends blocked in input("Pressione Enter ...")
exibir_resultados_individuais(computadores) ==
    IF computadores = <<>>
    THEN [out |-> Texto(<<MsgLimpaTela, MsgDetalhes, MsgNenhumAdicionado>>),
          pause |-> FALSE]
    ELSE [out |-> Saida(<<MsgLimpaTela, MsgDetalhes>>, Rows(computadores), <<>>, <<>>),
          pause |-> TRUE]

exibir_comparacao_tabela(computadores) ==
    IF computadores = <<>>
    THEN [out |-> Texto(<<MsgLimpaTela, MsgComparativo, MsgNenhumParaComparar>>),
          pause |-> FALSE]
    ELSE [out |-> Saida(<<MsgLimpaTela, MsgComparativo>>, Rows(computadores),
                        IF Len(computadores) > 1
                        THEN <<Par(computadores[ScanMin(computadores, 2, 1)]),
                               Par(computadores[ScanMax(computadores, 2, 1)])>>
                        ELSE <<>>,
                        <<>>),
          pause |-> TRUE]

\* show: the function ends in plt.show()
gerar_grafico_comparacao(computadores) ==
    IF computadores = <<>>
    THEN [out |-> Texto(<<MsgSemDadosGrafico>>), show |-> FALSE]
    ELSE [out |-> Saida(<<MsgLimpaTela>>, <<>>, <<>>,
                        [i \in 1..Len(computadores) |-> Par(computadores[i])]),
          show |-> TRUE]

\* what was written before `o` in the same step stays on the console log
Apos(msgs, o) == [o EXCEPT !.msgs = msgs \o o.msgs]

---------------------------------------------------------------------------
(* The reporting stage, lines 205-210, run up to the next blocking call.   *)
(* Each operator yields the program position, the output and the reporters *)
(* called.                                                                 *)

EtapaGrafico(c, msgs, r) ==
    LET g == gerar_grafico_comparacao(c)
    IN  [pc  |-> IF g.show THEN "Grafico" ELSE "Done",
         out |-> Apos(msgs, g.out),
         ran |-> Append(r, "grafico")]

EtapaTabela(c, msgs, r) ==
    LET t == exibir_comparacao_tabela(c)
    IN  IF t.pause
        THEN [pc |-> "PauseTabela", out |-> Apos(msgs, t.out),
              ran |-> Append(r, "tabela")]
        ELSE EtapaGrafico(c, msgs \o t.out.msgs, Append(r, "tabela"))

EtapaIndividuais(c, msgs, r) ==
    LET e == exibir_resultados_individuais(c)
    IN  IF e.pause
        THEN [pc |-> "PauseIndividuais", out |-> Apos(msgs, e.out),
              ran |-> Append(r, "individuais")]
        ELSE EtapaTabela(c, msgs \o e.out.msgs, Append(r, "individuais"))

Reportar(c, msgs) ==
    IF c # <<>>
    THEN EtapaIndividuais(c, msgs, <<>>)
    ELSE [pc |-> "Done", out |-> Texto(Append(msgs, MsgNenhumConfigurado)),
          ran |-> <<>>]

---------------------------------------------------------------------------
(* What the user may type *)

NomeLines ==
    { <<>>, Rep("a", 2), <<"P", "C", "1">>, Rep("x", 20), Rep("x", 21) }

RespostaLines ==
    { <<"s">>, <<"S">>, <<"n">>, <<"N">>, <<>>, <<"x">>, <<"s", "n">>, <<" ", "n">> }

EnterLines == { <<>>, <<"x">> }

---------------------------------------------------------------------------
(* The session, lines 147-210 *)

LoopStates == {"CollectingName", "CollectingPower", "CollectingHours",
               "CollectingDays", "Computed", "AskContinue"}

\* the function harnesses are idle during a session
NoCall ==
    /\ min_val = 0 /\ max_val = 0 /\ value = 0
    /\ entradas = <<>> /\ avisos = <<>>

Init ==
    /\ pc = "CollectingName"
    /\ computadores_registrados = <<>>
    /\ nome_computador = <<>>
    /\ potencia = 0
    /\ horas_por_dia = 0
    /\ dias_por_mes = 0
    /\ continuar = <<>>
    /\ line = <<>>
    /\ out = Texto(<<MsgLimpaTela, MsgAdicionando(1)>>)
    /\ ran = <<>>
    /\ acks = 0
    /\ sims = 0
    /\ erro = FALSE
    /\ NoCall

\* lines 157-161: one pass of get_validated_string_input
LerNome ==
    /\ pc = "CollectingName"
    /\ \E l \in NomeLines :
         /\ line' = l
         /\ IF valida_nome_computador(l)
            THEN /\ nome_computador' = l
                 /\ pc' = "CollectingPower"
                 /\ out' = Texto(<<>>)
            ELSE /\ out' = Texto(<<MsgPoxa>>)
                 /\ UNCHANGED <<nome_computador, pc>>
    /\ UNCHANGED <<computadores_registrados, potencia, horas_por_dia,
                   dias_por_mes, continuar, ran, acks, sims, erro, callVars>>

\* lines 164-166
LerPotencia ==
    /\ pc = "CollectingPower"
    /\ \E l \in PotenciaLines :
         LET r == get_int_input(l, 1, 1000)
         IN  /\ line' = l
             /\ out' = Texto(r.msgs)
             /\ IF r.ret
                THEN potencia' = r.value /\ pc' = "CollectingHours"
                ELSE UNCHANGED <<potencia, pc>>
    /\ UNCHANGED <<computadores_registrados, nome_computador, horas_por_dia,
                   dias_por_mes, continuar, ran, acks, sims, erro, callVars>>

\* lines 167-169
LerHoras ==
    /\ pc = "CollectingHours"
    /\ \E l \in HorasLines :
         LET r == get_int_input(l, 1, 24)
         IN  /\ line' = l
             /\ out' = Texto(r.msgs)
             /\ IF r.ret
                THEN horas_por_dia' = r.value /\ pc' = "CollectingDays"
                ELSE UNCHANGED <<horas_por_dia, pc>>
    /\ UNCHANGED <<computadores_registrados, nome_computador, potencia,
                   dias_por_mes, continuar, ran, acks, sims, erro, callVars>>

\* lines 170-172
LerDias ==
    /\ pc = "CollectingDays"
    /\ \E l \in DiasLines :
         LET r == get_int_input(l, 1, 30)
         IN  /\ line' = l
             /\ out' = Texto(r.msgs)
             /\ IF r.ret
                THEN dias_por_mes' = r.value /\ pc' = "Computed"
                ELSE UNCHANGED <<dias_por_mes, pc>>
    /\ UNCHANGED <<computadores_registrados, nome_computador, potencia,
                   horas_por_dia, continuar, ran, acks, sims, erro, callVars>>

\* insert(0, info_computador) in place of append
Registrar_inicio(lista, info) == <<info>> \o lista

\* the append left out
Registrar_nada(lista, info) == lista

\* the break of line 198 taken on 's'
SaiDoLoop_s(c) == c = <<"s">>

\* the break of line 198 never taken
SaiDoLoop_nunca(c) == FALSE

\* line 189: computadores_registrados.append(info_computador)
Registrar(lista, info) == Append(lista, info)

\* line 197: if continuar == 'n': break
SaiDoLoop(c) == c = <<"n">>

\* lines 176-189: the record is computed and appended, then the program
\* blocks in the question of line 192
Calcular ==
    /\ pc = "Computed"
    /\ computadores_registrados' =
         Registrar(computadores_registrados,
                   info_computador(nome_computador, potencia, horas_por_dia,
                                   dias_por_mes))
    /\ pc' = "AskContinue"
    /\ out' = Texto(<<>>)
    /\ UNCHANGED <<nome_computador, potencia, horas_por_dia, dias_por_mes,
                   continuar, line, ran, acks, sims, erro, callVars>>

\* the except branch with continue in place of break: the loop starts the
\* next device
Falha_continue ==
    /\ pc = "Computed"
    /\ erro' = TRUE
    /\ pc' = "CollectingName"
    /\ out' = Texto(<<MsgErroInesperado,
                       MsgAdicionando(Len(computadores_registrados) + 1)>>)
    /\ UNCHANGED <<computadores_registrados, nome_computador, potencia,
                   horas_por_dia, dias_por_mes, continuar, line, ran, acks,
                   sims, callVars>>

\* lines 176-189 raise an Exception before the append; lines 200-202 print
\* it and leave the loop, and the reporting stage of line 205 follows
Falha ==
    /\ pc = "Computed"
    /\ erro' = TRUE
    /\ LET r == Reportar(computadores_registrados, <<MsgErroInesperado>>)
       IN  pc' = r.pc /\ out' = r.out /\ ran' = r.ran
    /\ UNCHANGED <<computadores_registrados, nome_computador, potencia,
                   horas_por_dia, dias_por_mes, continuar, line, acks, sims,
                   callVars>>

\* lines 191-198: one pass of the question loop, and what follows an
\* accepted answer
Responder ==
    /\ pc = "AskContinue"
    /\ \E l \in RespostaLines :
         LET c == Lower(l)
         IN  /\ line' = l
             /\ continuar' = c
             /\ IF c \notin {<<"s">>, <<"n">>}
                THEN /\ out' = Texto(<<MsgRespostaInvalida>>)
                     /\ UNCHANGED <<pc, ran, sims>>
                ELSE IF SaiDoLoop(c)
                THEN LET r == Reportar(computadores_registrados, <<>>)
                     IN  /\ pc' = r.pc /\ out' = r.out /\ ran' = r.ran
                         /\ UNCHANGED sims
                ELSE /\ Len(computadores_registrados) < MaxDevices
                     /\ pc' = "CollectingName"
                     /\ sims' = sims + 1
                     /\ out' = Texto(<<MsgAdicionando(
                                   Len(computadores_registrados) + 1)>>)
                     /\ UNCHANGED ran
    /\ UNCHANGED <<computadores_registrados, nome_computador, potencia,
                   horas_por_dia, dias_por_mes, acks, erro, callVars>>

\* line 95 returns; line 207 calls the table
Confirmar1 ==
    /\ pc = "PauseIndividuais"
    /\ \E l \in EnterLines : line' = l
    /\ acks' = acks + 1
    /\ LET r == EtapaTabela(computadores_registrados, <<>>, ran)
       IN  pc' = r.pc /\ out' = r.out /\ ran' = r.ran
    /\ UNCHANGED <<computadores_registrados, nome_computador, potencia,
                   horas_por_dia, dias_por_mes, continuar, sims, erro,
                   callVars>>

\* line 121 returns; line 208 calls the chart
Confirmar2 ==
    /\ pc = "PauseTabela"
    /\ \E l \in EnterLines : line' = l
    /\ acks' = acks + 1
    /\ LET r == EtapaGrafico(computadores_registrados, <<>>, ran)
       IN  pc' = r.pc /\ out' = r.out /\ ran' = r.ran
    /\ UNCHANGED <<computadores_registrados, nome_computador, potencia,
                   horas_por_dia, dias_por_mes, continuar, sims, erro,
                   callVars>>

\* line 144: plt.show() returns and the program ends
FecharGrafico ==
    /\ pc = "Grafico"
    /\ pc' = "Done"
    /\ out' = Texto(<<>>)
    /\ UNCHANGED <<computadores_registrados, nome_computador, potencia,
                   horas_por_dia, dias_por_mes, continuar, line, ran, acks,
                   sims, erro, callVars>>

Next ==
    \/ LerNome
    \/ LerPotencia
    \/ LerHoras
    \/ LerDias
    \/ Calcular
    \/ Falha
    \/ Responder
    \/ Confirmar1
    \/ Confirmar2
    \/ FecharGrafico

Spec == Init /\ [][Next]_vars

---------------------------------------------------------------------------
(* get_int_input called on its own, with any bounds lo <= hi *)

Limites == {-1, 1, 24, 1000}

\* the session's variables while a function is called on its own
NoSession ==
    /\ nome_computador = <<>>
    /\ potencia = 0
    /\ horas_por_dia = 0
    /\ dias_por_mes = 0
    /\ continuar = <<>>
    /\ line = <<>>
    /\ out = Texto(<<>>)
    /\ ran = <<>>
    /\ acks = 0
    /\ sims = 0
    /\ erro = FALSE

InitInt ==
    /\ pc = "get_int_input"
    /\ min_val \in Limites
    /\ max_val \in Limites
    /\ min_val <= max_val
    /\ value = 0
    /\ entradas = <<>>
    /\ avisos = <<>>
    /\ computadores_registrados = <<>>
    /\ NoSession

\* lines 21-29: one pass of the loop
PassoInt ==
    /\ pc = "get_int_input"
    /\ Len(entradas) < MaxEntradas
    /\ \E l \in IntLinesCall :
         LET r == get_int_input(l, min_val, max_val)
         IN  /\ line' = l
             /\ entradas' = Append(entradas, l)
             /\ avisos' = avisos \o r.msgs
             /\ out' = Texto(r.msgs)
             /\ IF r.ret
                THEN value' = r.value /\ pc' = "returned"
                ELSE UNCHANGED <<value, pc>>
    /\ UNCHANGED <<computadores_registrados, nome_computador, potencia,
                   horas_por_dia, dias_por_mes, continuar, ran, acks, sims,
                   erro, min_val, max_val>>

NextInt == PassoInt

SpecInt == InitInt /\ [][NextInt]_vars

---------------------------------------------------------------------------
(* exibir_comparacao_tabela called on its own, with any list of records *)

RegistrosTeste ==
    { info_computador(n, p, 1, d) :
        n \in { <<"P", "C", "1">>, Rep("x", 20) }, p \in {1, 24}, d \in {1, 24} }

InitTabela ==
    /\ pc = "exibir_comparacao_tabela"
    /\ computadores_registrados \in
         UNION { [1..n -> RegistrosTeste] : n \in 0..MaxTabela }
    /\ NoSession
    /\ NoCall

\* lines 99-120, up to the input() of line 121 or the return of line 104
ChamarTabela ==
    /\ pc = "exibir_comparacao_tabela"
    /\ LET t == exibir_comparacao_tabela(computadores_registrados)
       IN  /\ out' = t.out
           /\ pc' = IF t.pause THEN "PauseTabela" ELSE "returned"
    /\ UNCHANGED <<computadores_registrados, nome_computador, potencia,
                   horas_por_dia, dias_por_mes, continuar, line, ran, acks,
                   sims, erro, callVars>>

\* line 121 returns
RetornarTabela ==
    /\ pc = "PauseTabela"
    /\ \E l \in EnterLines : line' = l
    /\ pc' = "returned"
    /\ UNCHANGED <<computadores_registrados, nome_computador, potencia,
                   horas_por_dia, dias_por_mes, continuar, out, ran, acks,
                   sims, erro, callVars>>

NextTabela == ChamarTabela \/ RetornarTabela

SpecTabela == InitTabela /\ [][NextTabela]_vars

---------------------------------------------------------------------------
(* The session with a user who answers *)

\* the user eventually gives an accepted answer at every prompt and at every
\* pause, and eventually answers 'n'
LiveSpec ==
    /\ Spec
    /\ WF_vars(Next /\ pc' # pc)
    /\ SF_vars(Responder /\ continuar' = <<"n">>)

---------------------------------------------------------------------------
(* Properties *)

IsPrefix(a, b) == Len(a) <= Len(b) /\ SubSeq(b, 1, Len(a)) = a

InMsgs(m, o) == \E i \in 1..Len(o.msgs) : o.msgs[i] = m

PromptStates == LoopStates \ {"Computed"}

\* the text is an integer within [lo, hi]
Aceitavel(text, lo, hi) ==
    PyIntTab[text].ok /\ lo <= PyIntTab[text].val /\ PyIntTab[text].val <= hi

\* the message a refused text must have produced
Recusa(text, lo, hi) ==
    IF PyIntTab[text].ok THEN MsgOps(lo, hi) ELSE MsgEntradaInvalida

\* C1: get_int_input returns v iff v is the first supplied value that parses
\* as an integer within [lo, hi]: while it has not returned, no supplied line
\* was acceptable and each produced its rejection message; when it has
\* returned, the value is that of the last supplied line, which is the only
\* acceptable one, and every line before it produced its rejection message
\* before the return.
C1_FirstValidReturned ==
    LET n == Len(entradas)
    IN  /\ pc = "get_int_input" =>
              /\ Len(avisos) = n
              /\ \A i \in 1..n :
                    /\ ~Aceitavel(entradas[i], min_val, max_val)
                    /\ avisos[i] = Recusa(entradas[i], min_val, max_val)
        /\ pc = "returned" =>
              /\ n >= 1
              /\ Aceitavel(entradas[n], min_val, max_val)
              /\ value = PyIntTab[entradas[n]].val
              /\ Len(avisos) = n - 1
              /\ \A i \in 1..(n - 1) :
                    /\ ~Aceitavel(entradas[i], min_val, max_val)
                    /\ avisos[i] = Recusa(entradas[i], min_val, max_val)

\* a call with lo = hi that refused a non-integer, then an integer out of
\* range, then returned the third line
C1_Witness ==
    /\ pc = "returned"
    /\ min_val = 24 /\ max_val = 24
    /\ Len(entradas) = 3
    /\ avisos = <<MsgEntradaInvalida, MsgOps(24, 24)>>
    /\ value = 24

\* C2: the loop visits CollectingName, CollectingPower, CollectingHours,
\* CollectingDays, Computed, AskContinue in that order for every device; a
\* device's first field is collected only in the step that accepts its name;
\* from AskContinue the loop returns to CollectingName exactly on an accepted
\* 's' and is left exactly on an accepted 'n'; the loop is left only so or by
\* the error branch, and is never entered again.
C2_StateOrder ==
    [][ /\ (pc = "CollectingName" /\ pc' # pc) =>
              /\ pc' = "CollectingPower"
              /\ valida_nome_computador(line')
              /\ nome_computador' = line'
        /\ (pc = "CollectingPower" /\ pc' # pc) => pc' = "CollectingHours"
        /\ (pc = "CollectingHours" /\ pc' # pc) => pc' = "CollectingDays"
        /\ (pc = "CollectingDays" /\ pc' # pc) => pc' = "Computed"
        /\ (pc = "Computed" /\ pc' # pc) =>
              \/ pc' = "AskContinue" /\ ~erro'
              \/ pc' \notin LoopStates /\ erro'
        /\ pc = "AskContinue" =>
              /\ (pc' = "CollectingName") <=> (continuar' = <<"s">>)
              /\ (pc' \notin LoopStates) <=> (continuar' = <<"n">>)
              /\ pc' \in {"AskContinue", "CollectingName"} \/ pc' \notin LoopStates
        /\ (pc \in LoopStates /\ pc' \notin LoopStates) =>
              \/ pc = "AskContinue" /\ continuar' = <<"n">>
              \/ pc = "Computed" /\ erro'
        /\ pc \notin LoopStates => pc' \notin LoopStates
      ]_vars

\* the loop is back at the name prompt after an upper-case yes
C2_Witness ==
    /\ pc = "CollectingName"
    /\ line = <<"S">>
    /\ continuar = <<"s">>
    /\ Len(computadores_registrados) = 1

\* C3: every record of the registry has a name of 3 to 20 characters, a power
\* in 1..1000, hours in 1..24, days in 1..30, a consumption of
\* power * hours * days / 1000 and a cost of that consumption times 0.80.
C3_RecordsConsistent ==
    \A i \in 1..Len(computadores_registrados) :
        LET r == computadores_registrados[i]
        IN  /\ Len(r.nome) \in 3..20
            /\ r.potencia \in 1..1000
            /\ r.horas_por_dia \in 1..24
            /\ r.dias_por_mes \in 1..30
            /\ r.consumo_kwh =
                 <<r.potencia * r.horas_por_dia * r.dias_por_mes, 1000>>
            /\ r.custo = <<r.consumo_kwh[1] * 80, r.consumo_kwh[2] * 100>>

\* two records, the second with a 20-character name and every value at its
\* range's upper end, the first with the power at its lower end
C3_Witness ==
    /\ Len(computadores_registrados) = 2
    /\ Len(computadores_registrados[2].nome) = 20
    /\ computadores_registrados[2].potencia = 1000
    /\ computadores_registrados[2].horas_por_dia = 24
    /\ computadores_registrados[2].dias_por_mes = 30
    /\ Len(computadores_registrados[1].nome) = 3
    /\ computadores_registrados[1].potencia = 1

\* C4: in every step the registry before is a prefix of the registry after,
\* and at most one record longer.
C4_AppendOnly ==
    [][ /\ IsPrefix(computadores_registrados, computadores_registrados')
        /\ Len(computadores_registrados') <= Len(computadores_registrados) + 1
      ]_vars

\* the session ended after the chart with two different records
C4_Witness ==
    /\ pc = "Done"
    /\ Len(computadores_registrados) = 2
    /\ computadores_registrados[1] # computadores_registrados[2]
    /\ ran = <<"individuais", "tabela", "grafico">>

\* C5: the step in which the error branch runs leaves the loop for good with
\* the registry as it was, and hands it to the reporting stage: with records,
\* the listing shows them all and waits; with none, the closing notice ends
\* the program.  After it no prompt of the loop is reached and the registry
\* never changes.
C5_FaultAbandonsLoop ==
    [][ /\ (erro' /\ ~erro) =>
              /\ pc = "Computed"
              /\ computadores_registrados' = computadores_registrados
              /\ pc' \notin LoopStates
              /\ InMsgs(MsgErroInesperado, out')
              /\ IF computadores_registrados = <<>>
                 THEN /\ pc' = "Done"
                      /\ ran' = <<>>
                      /\ InMsgs(MsgNenhumConfigurado, out')
                 ELSE /\ pc' = "PauseIndividuais"
                      /\ ran' = <<"individuais">>
                      /\ out'.rows = Rows(computadores_registrados)
        /\ erro =>
              /\ erro'
              /\ pc' \notin LoopStates
              /\ computadores_registrados' = computadores_registrados
      ]_vars

\* the error came with the second device; the table shows the first
C5_Witness ==
    /\ erro
    /\ pc = "PauseTabela"
    /\ Len(computadores_registrados) = 1
    /\ sims = 1
    /\ out.rows = Rows(computadores_registrados)

\* the text read at a prompt is refused
Rejeitada(at, text) ==
    \/ at = "CollectingName" /\ ~valida_nome_computador(text)
    \/ at = "CollectingPower" /\ ~Aceitavel(text, 1, 1000)
    \/ at = "CollectingHours" /\ ~Aceitavel(text, 1, 24)
    \/ at = "CollectingDays" /\ ~Aceitavel(text, 1, 30)
    \/ at = "AskContinue" /\ Lower(text) \notin {<<"s">>, <<"n">>}

MensagemDeRecusa(at, text) ==
    CASE at = "CollectingName" -> MsgPoxa
      [] at = "CollectingPower" -> Recusa(text, 1, 1000)
      [] at = "CollectingHours" -> Recusa(text, 1, 24)
      [] at = "CollectingDays" -> Recusa(text, 1, 30)
      [] OTHER -> MsgRespostaInvalida

\* C6: a step that reads a refused text leaves the program at the same
\* prompt, leaves the registry and the fields accepted so far as they were,
\* and prints exactly the rejection message of that prompt.
C6_RejectionKeepsState ==
    [][ (pc \in PromptStates /\ Rejeitada(pc, line')) =>
            /\ pc' = pc
            /\ computadores_registrados' = computadores_registrados
            /\ nome_computador' = nome_computador
            /\ potencia' = potencia
            /\ horas_por_dia' = horas_por_dia
            /\ dias_por_mes' = dias_por_mes
            /\ <<ran', acks', sims', erro'>> = <<ran, acks, sims, erro>>
            /\ out'.msgs = <<MensagemDeRecusa(pc, line')>>
      ]_vars

\* the second device's hours were refused as out of range, after its name
\* and power were accepted; the hours of the first device are still held
C6_Witness ==
    /\ pc = "CollectingHours"
    /\ line = <<"2", "5">>
    /\ out.msgs = <<MsgOps(1, 24)>>
    /\ Len(computadores_registrados) = 1
    /\ potencia = 1000
    /\ computadores_registrados[1].potencia = 1
    /\ horas_por_dia = computadores_registrados[1].horas_por_dia

\* the first position whose cost no other record undercuts
PrimeiroMin(c) ==
    CHOOSE i \in 1..Len(c) :
        /\ \A j \in 1..Len(c) : ~RatLess(c[j].custo, c[i].custo)
        /\ \A j \in 1..(i - 1) : RatLess(c[i].custo, c[j].custo)

\* the first position whose cost no other record exceeds
PrimeiroMax(c) ==
    CHOOSE i \in 1..Len(c) :
        /\ \A j \in 1..Len(c) : ~RatLess(c[i].custo, c[j].custo)
        /\ \A j \in 1..(i - 1) : RatLess(c[j].custo, c[i].custo)

\* C7: once the table function has run on a list: with more than one record
\* it names as cheapest the first record of minimal cost and as dearest the
\* first record of maximal cost; with one record it names neither; with none
\* it prints the no-data notice, no row and no comparison.
C7_TableMinMax ==
    LET c == computadores_registrados
    IN  pc \in {"PauseTabela", "returned"} =>
          /\ Len(c) > 1 =>
                /\ out.comparacao = <<Par(c[PrimeiroMin(c)]), Par(c[PrimeiroMax(c)])>>
                /\ out.rows = Rows(c)
          /\ Len(c) = 1 => out.comparacao = <<>> /\ out.rows = Rows(c)
          /\ Len(c) = 0 =>
                /\ InMsgs(MsgNenhumParaComparar, out)
                /\ out.rows = <<>>
                /\ out.comparacao = <<>>
                /\ pc = "returned"

\* three records: the cheapest cost is shared by the first and the third,
\* under different names, and the dearest by the second alone
C7_Witness ==
    LET c == computadores_registrados
    IN  /\ pc = "PauseTabela"
        /\ Len(c) = 3
        /\ c[1].custo = c[3].custo
        /\ c[1].nome # c[3].nome
        /\ RatLess(c[1].custo, c[2].custo)
        /\ out.comparacao = <<Par(c[1]), Par(c[2])>>

\* C8: the reporters called so far are a prefix of listing, table, chart;
\* none is called while the loop runs; the table is not called before the
\* first pause was answered nor the chart before the second.
C8_ReportersInSequence ==
    /\ IsPrefix(ran, <<"individuais", "tabela", "grafico">>)
    /\ ran # <<>> => pc \notin LoopStates
    /\ Len(ran) <= acks + 1
    /\ acks <= 2
    /\ pc = "PauseIndividuais" => ran = <<"individuais">> /\ acks = 0
    /\ pc = "PauseTabela" => ran = <<"individuais", "tabela">> /\ acks = 1
    /\ pc = "Grafico" => ran = <<"individuais", "tabela", "grafico">> /\ acks = 2

\* the chart is on screen after two answered pauses
C8_Witness ==
    /\ pc = "Grafico"
    /\ acks = 2
    /\ ran = <<"individuais", "tabela", "grafico">>
    /\ out.barras # <<>>

\* C9: at the continue question the registry holds one record more than the
\* 's' answers accepted so far; a loop left without the error branch leaves a
\* non-empty registry to the reporters; the closing "no computer" notice and
\* the reporters' empty-list notices are printed only after the error branch
\* ran on an empty registry.
C9_RegistryAtContinue ==
    /\ pc = "AskContinue" =>
          /\ Len(computadores_registrados) >= 1
          /\ Len(computadores_registrados) = sims + 1
    /\ (pc \notin LoopStates /\ ~erro) =>
          /\ computadores_registrados # <<>>
          /\ continuar = <<"n">>
          /\ ran # <<>>
    /\ (\/ InMsgs(MsgNenhumConfigurado, out)
        \/ InMsgs(MsgNenhumAdicionado, out)
        \/ InMsgs(MsgNenhumParaComparar, out)
        \/ InMsgs(MsgSemDadosGrafico, out)) =>
          /\ erro
          /\ computadores_registrados = <<>>
          /\ InMsgs(MsgNenhumConfigurado, out)

\* the question is asked for the second device after one accepted 's'
C9_Witness ==
    /\ pc = "AskContinue"
    /\ sims = 1
    /\ Len(computadores_registrados) = 2
    /\ out.msgs = <<MsgRespostaInvalida>>

\* C10: at every prompt a refused answer is possible and leaves the program
\* at that prompt; the loop is left only by an accepted 'n' or the error
\* branch; with a user who answers, the program ends, and once the loop is
\* left with a record the chart is shown before the end.
C10_Termination ==
    /\ [](pc \in PromptStates =>
            ENABLED (Next /\ pc' = pc /\ out'.msgs # <<>>
                          /\ computadores_registrados' = computadores_registrados))
    /\ [][ (pc \in LoopStates /\ pc' \notin LoopStates) =>
              (continuar' = <<"n">> \/ erro') ]_vars
    /\ <>(pc = "Done")
    /\ (pc \notin LoopStates /\ computadores_registrados # <<>>) ~>
          (pc = "Done" /\ ran = <<"individuais", "tabela", "grafico">>)

\* the program ended after the chart, the loop having been left by 'n' at
\* the second device
C10_Witness ==
    /\ pc = "Done"
    /\ ~erro
    /\ continuar = <<"n">>
    /\ sims = 1
    /\ ran = <<"individuais", "tabela", "grafico">>

=============================================================================
